---- MODULE Spec2Model ----
(***************************************************************************)
(* Model of the TV-match schedule scraper (src/main.go): the in-memory     *)
(* schedule cache shared by the HTTP handlers, the refresh that fetches    *)
(* and parses the upstream page, and the text handling of the parser.      *)
(*                                                                         *)
(* Strings the code inspects character by character (league texts, date   *)
(* identifiers, day labels) are sequences of one-character strings.        *)
(* Strings the code only copies (match name, channel, time) are opaque.    *)
(***************************************************************************)
EXTENDS Integers, Sequences, FiniteSets

(***************************************************************************)
(* Program constants (src/main.go:17-34).                                  *)
(***************************************************************************)
daysToShow == 10

\* cacheDuration = 10 * time.Hour; the model's clock counts hours.
cacheDuration == 10

\* leagues = []string{"Premier League"}
leagues == << <<"P","r","e","m","i","e","r"," ","L","e","a","g","u","e">> >>

dayNames ==
  [ Monday |-> "Måndag", Tuesday |-> "Tisdag", Wednesday |-> "Onsdag",
    Thursday |-> "Torsdag", Friday |-> "Fredag", Saturday |-> "Lördag",
    Sunday |-> "Söndag" ]

(***************************************************************************)
(* Bounds of the model.                                                    *)
(***************************************************************************)
\* longest string the normalization is applied to in SpecNorm
MaxLen == 5

\* number of requests served in one behaviour, each by its own goroutine
MaxRequests == 2

\* day headers of the documents fetched in Spec
MaxDays == 2

\* day headers of the longest document parsed in SpecParse
MaxHeaders == 11

\* hours between the zero time and the start of the process
Epoch == 11

\* hours the clock advances after the start of the process
MaxHours == 15

\* the most text segments and links after the league's name in a generated
\* league field
MaxSegs == 3

(***************************************************************************)
(* Go string functions, on sequences of characters.                        *)
(***************************************************************************)
HasPrefix(s, p) ==
  /\ Len(p) <= Len(s)
  /\ SubSeq(s, 1, Len(p)) = p

\* strings.Contains(s, sub)
Contains(s, sub) ==
  \E i \in 0..(Len(s) - Len(sub)) : SubSeq(s, i + 1, i + Len(sub)) = sub

RECURSIVE Interleave(_, _)
\* strings.Replace with an empty old string: new before every character and
\* after the last one.
Interleave(s, new) ==
  IF s = <<>> THEN new
  ELSE new \o <<Head(s)>> \o Interleave(Tail(s), new)

RECURSIVE ReplaceFrom(_, _, _)
ReplaceFrom(s, old, new) ==
  IF s = <<>> THEN <<>>
  ELSE IF HasPrefix(s, old)
       THEN new \o ReplaceFrom(SubSeq(s, Len(old) + 1, Len(s)), old, new)
       ELSE <<Head(s)>> \o ReplaceFrom(Tail(s), old, new)

\* strings.Replace(s, old, new, -1): every non-overlapping occurrence of old,
\* leftmost first.
Replace(s, old, new) ==
  IF old = new THEN s
  ELSE IF old = <<>> THEN Interleave(s, new)
  ELSE ReplaceFrom(s, old, new)

\* the characters the regular expression class \s matches (RE2: [\t\n\f\r ])
IsSpace(c) == c \in {" ", "\t", "\n", "\f", "\r"}

RECURSIVE DropSpaces(_)
DropSpaces(s) ==
  IF s # <<>> /\ IsSpace(Head(s)) THEN DropSpaces(Tail(s)) ELSE s

RECURSIVE multipleSpacesReplaceAll(_, _)
\* multipleSpaces.ReplaceAllString(s, repl) with multipleSpaces = `\s+`
multipleSpacesReplaceAll(s, repl) ==
  IF s = <<>> THEN <<>>
  ELSE IF IsSpace(Head(s))
       THEN repl \o multipleSpacesReplaceAll(DropSpaces(Tail(s)), repl)
       ELSE <<Head(s)>> \o multipleSpacesReplaceAll(Tail(s), repl)

RECURSIVE TrimLeft(_, _)
TrimLeft(s, cutset) ==
  IF s # <<>> /\ Head(s) \in cutset THEN TrimLeft(Tail(s), cutset) ELSE s

RECURSIVE TrimRight(_, _)
TrimRight(s, cutset) ==
  IF s # <<>> /\ s[Len(s)] \in cutset
  THEN TrimRight(SubSeq(s, 1, Len(s) - 1), cutset)
  ELSE s

\* strings.Trim(s, cutset)
Trim(s, cutset) == TrimRight(TrimLeft(s, cutset), cutset)

\* A plausible slip: the trim is done before the whitespace runs are
\* collapsed, so a leading tab or a trailing newline leaves a space behind.
NormalizeTrimFirst(s) ==
  multipleSpacesReplaceAll(Replace(Trim(s, {" "}), <<"\n">>, <<" ">>), <<" ">>)

\* the league normalization of refreshSchedule (src/main.go:111-113)
Normalize(s) ==
  Trim(multipleSpacesReplaceAll(Replace(s, <<"\n">>, <<" ">>), <<" ">>), {" "})

(***************************************************************************)
(* Dates: time.Parse("2006-01-02", s), Time.Format and the weekday.        *)
(***************************************************************************)
Digits == <<"0", "1", "2", "3", "4", "5", "6", "7", "8", "9">>

IsDigit(c) == \E n \in 1..10 : Digits[n] = c

DigitVal(c) == (CHOOSE n \in 1..10 : Digits[n] = c) - 1

RECURSIVE Atoi(_)
Atoi(s) ==
  IF s = <<>> THEN 0
  ELSE 10 * Atoi(SubSeq(s, 1, Len(s) - 1)) + DigitVal(s[Len(s)])

AllDigits(s) == \A i \in 1..Len(s) : IsDigit(s[i])

isLeap(y) == y % 4 = 0 /\ (y % 100 # 0 \/ y % 400 = 0)

daysIn(m, y) ==
  IF m = 2 THEN (IF isLeap(y) THEN 29 ELSE 28)
  ELSE IF m \in {4, 6, 9, 11} THEN 30 ELSE 31

\* the zero time.Time: January 1, year 1
ZeroDate == [y |-> 1, m |-> 1, d |-> 1]

\* time.Parse("2006-01-02", s): four digits, "-", two digits, "-", two
\* digits and nothing after them, month and day in range.
TimeParse(s) ==
  LET wellFormed ==
        /\ Len(s) = 10
        /\ AllDigits(SubSeq(s, 1, 4))
        /\ s[5] = "-"
        /\ AllDigits(SubSeq(s, 6, 7))
        /\ s[8] = "-"
        /\ AllDigits(SubSeq(s, 9, 10))
      y == Atoi(SubSeq(s, 1, 4))
      m == Atoi(SubSeq(s, 6, 7))
      d == Atoi(SubSeq(s, 9, 10))
  IN  IF wellFormed /\ m \in 1..12 /\ d \in 1..daysIn(m, y)
      THEN [ok |-> TRUE, t |-> [y |-> y, m |-> m, d |-> d]]
      ELSE [ok |-> FALSE, t |-> ZeroDate]

RECURSIVE Pad(_, _)
\* n in decimal, zero-padded to width w
Pad(n, w) ==
  IF w = 0 THEN <<>> ELSE Pad(n \div 10, w - 1) \o <<Digits[(n % 10) + 1]>>

\* t.Format("2006-01-02 - ")
FormatDate(t) ==
  Pad(t.y, 4) \o <<"-">> \o Pad(t.m, 2) \o <<"-">> \o Pad(t.d, 2)
    \o <<" ", "-", " ">>

RECURSIVE daysBefore(_, _)
\* days of year y before month m
daysBefore(m, y) ==
  IF m = 1 THEN 0 ELSE daysBefore(m - 1, y) + daysIn(m - 1, y)

\* days from January 1, year 1 (a Monday) to t
daysSinceZero(t) ==
  LET p == t.y - 1
  IN  365 * p + (p \div 4) - (p \div 100) + (p \div 400)
        + daysBefore(t.m, t.y) + (t.d - 1)

WeekdayNames ==
  <<"Monday", "Tuesday", "Wednesday", "Thursday", "Friday", "Saturday", "Sunday">>

\* t.Format("Monday")
FormatWeekday(t) == WeekdayNames[(daysSinceZero(t) % 7) + 1]

\* the prefix removed from the day header's id
MatchDayPrefix == <<"m", "a", "t", "c", "h", "-", "d", "a", "y", "-">>

\* The day label of a day header (src/main.go:93-98). The localized weekday
\* name is the label's last element, kept as one token.
DayLabel(h) ==
  LET id   == IF h.hasId THEN h.id ELSE <<>>
      date == Replace(id, MatchDayPrefix, <<>>)
      t    == TimeParse(date).t
  IN  FormatDate(t) \o <<dayNames[FormatWeekday(t)]>>

(***************************************************************************)
(* The upstream document, as the parser's selectors see it: the sequence   *)
(* of h2.day-name headers, each with the id of its span.day-name-inner     *)
(* (if any) and the rows of the table that follows it. A row's league      *)
(* field is a sequence of text segments, some of them links.               *)
(***************************************************************************)
PremierLeague == leagues[1]

Seg(isLink, text) == [link |-> isLink, text |-> text]

LeagueFields ==
  << \* "Premier League"
     << Seg(FALSE, PremierLeague) >>,
     \* "Premier League\n  <a>R5</a>"
     << Seg(FALSE, PremierLeague \o <<"\n", " ", " ">>), Seg(TRUE, <<"R", "5">>) >>,
     \* "Ligue 1"
     << Seg(FALSE, <<"L", "i", "g", "u", "e", " ", "1">>) >>,
     \* "Premier<a>X</a> League"
     << Seg(FALSE, <<"P", "r", "e", "m", "i", "e", "r">>), Seg(TRUE, <<"X">>),
        Seg(FALSE, <<" ", "L", "e", "a", "g", "u", "e">>) >>,
     \* "Premier\n\tLeague 2"
     << Seg(FALSE, <<"P", "r", "e", "m", "i", "e", "r", "\n", "\t",
                     "L", "e", "a", "g", "u", "e", " ", "2">>) >>,
     \* "<a>Premier League</a>"
     << Seg(TRUE, PremierLeague) >>,
     \* "Premier  League<a></a>"
     << Seg(FALSE, <<"P", "r", "e", "m", "i", "e", "r", " ", " ",
                     "L", "e", "a", "g", "u", "e">>), Seg(TRUE, <<>>) >> >>

\* row j of header i in the document of variant v; the name stands for a
\* text that differs from row to row
RowOf(i, j, v) ==
  [ sport   |-> IF (i + 2 * j + v) % 4 = 0 THEN "ishockey" ELSE "fotboll",
    name    |-> <<i, j>>,
    league  |-> LeagueFields[((i + j + v) % Len(LeagueFields)) + 1],
    channel |-> IF j % 2 = 1 THEN [has |-> TRUE, title |-> "TV4"]
                ELSE [has |-> FALSE, title |-> ""],
    time    |-> IF j % 2 = 1 THEN "18:30" ELSE "21:00" ]

IsoDate(y, m, d) == Pad(y, 4) \o <<"-">> \o Pad(m, 2) \o <<"-">> \o Pad(d, 2)

\* header i of the document of variant v: variant 1 has one well-formed
\* date per header, variant 2 has ids that are missing, lack the prefix,
\* name a day that does not exist, or repeat
HeaderOf(i, v) ==
  [ hasId |-> (v = 1 \/ i % 4 # 3),
    id    |-> IF v = 1 THEN MatchDayPrefix \o IsoDate(2024, 1, i)
              ELSE IF i % 4 = 0 THEN IsoDate(2023, 12, 31 - (i \div 4))
              ELSE IF i % 4 = 1
                THEN MatchDayPrefix
                       \o IsoDate(2024 - (i \div 8), 2, 30 - ((i \div 4) % 2))
              ELSE MatchDayPrefix \o IsoDate(2024, 3, 1) \o MatchDayPrefix,
    rows  |-> [j \in 1..((i + v) % 4) |-> RowOf(i, j, v)] ]

DocOf(n, v) == [nil |-> FALSE, days |-> [i \in 1..n |-> HeaderOf(i, v)]]

\* the *goquery.Document left nil by a failed NewDocumentFromResponse
NilDoc == [nil |-> TRUE, days |-> <<>>]

Variants == {1, 2}

Documents == {DocOf(MaxDays, v) : v \in Variants}

LongDocuments == {DocOf(n, v) : n \in 0..MaxHeaders, v \in Variants}

\* the texts of the generated segments
SegTexts == {<<"a">>, <<"b">>, <<"a", "b">>}

\* what follows the league's name in a generated league field: up to
\* MaxSegs segments, each a text or a link
LeagueTails ==
  UNION {[1..n -> {Seg(isLink, t) : isLink \in BOOLEAN, t \in SegTexts}] :
           n \in 0..MaxSegs}

\* documents of one day with one football row, whose league field is
\* "Premier League " and a generated tail
LeagueDocuments ==
  { [nil  |-> FALSE,
     days |-> << [hasId |-> TRUE,
                  id    |-> MatchDayPrefix \o IsoDate(2024, 1, 1),
                  rows  |-> << [RowOf(1, 1, 1) EXCEPT
                                  !.sport  = "fotboll",
                                  !.league = << Seg(FALSE, PremierLeague \o <<" ">>) >>
                                               \o tail] >>] >>] :
      tail \in LeagueTails }

(***************************************************************************)
(* The match extraction of one football row (src/main.go:104-139).         *)
(***************************************************************************)
RECURSIVE SegmentsText(_)
\* ms.Find(".league").Text(): the text of the field, links included
SegmentsText(segs) ==
  IF segs = <<>> THEN <<>> ELSE Head(segs).text \o SegmentsText(Tail(segs))

RECURSIVE RemoveLinkTexts(_, _)
\* src/main.go:107-109: every link's text is removed, in document order
RemoveLinkTexts(league, segs) ==
  IF segs = <<>> THEN league
  ELSE RemoveLinkTexts(
         IF Head(segs).link THEN Replace(league, Head(segs).text, <<>>) ELSE league,
         Tail(segs))

\* A plausible slip: the filter is lost, every football row is kept.
InterestedAlways(league) == TRUE

\* src/main.go:115-123
Interested(league) ==
  \E l \in 1..Len(leagues) : Contains(league, leagues[l])

\* the league of a row as stored (src/main.go:105-113)
LeagueOf(row) ==
  Normalize(RemoveLinkTexts(SegmentsText(row.league), row.league))

\* the match a row yields, when the row is kept (src/main.go:129-139)
MatchOf(row) ==
  [ Name    |-> row.name,
    League  |-> LeagueOf(row),
    Channel |-> IF row.channel.has THEN row.channel.title ELSE "",
    Time    |-> row.time ]

IsFootball(row) == row.sport = "fotboll"

\* matchTable.Find(".sport-name-fotboll")
FootballRows(h) == SelectSeq(h.rows, IsFootball)

(***************************************************************************)
(* The schedule: map[string][]*match, nil until the first refresh.         *)
(***************************************************************************)
EmptyMap == [k \in {} |-> <<>>]

NilSchedule == [nil |-> TRUE, days |-> EmptyMap]

\* make(map[string][]*match, daysToShow)
MakeSchedule == [nil |-> FALSE, days |-> EmptyMap]

\* A plausible slip: the entry is made only when the key is new, so a
\* repeated label keeps what is there.
PutDayKeep(s, label) ==
  [s EXCEPT !.days = [k \in DOMAIN s.days \cup {label} |->
                        IF k \in DOMAIN s.days THEN s.days[k] ELSE <<>>]]

\* A plausible slip: no entry is made for the day, the key appears with
\* the day's first match.
PutDayOmitted(s, label) == s

\* A plausible slip: the match is put in front of the day's matches.
PrependMatch(s, label, m) ==
  [s EXCEPT !.days = [k \in DOMAIN s.days \cup {label} |->
                        IF k = label
                        THEN (IF label \in DOMAIN s.days
                              THEN <<m>> \o s.days[label] ELSE <<m>>)
                        ELSE s.days[k]]]

\* schedule[date] = []*match{}
PutDay(s, label) ==
  [s EXCEPT !.days = [k \in DOMAIN s.days \cup {label} |->
                        IF k = label THEN <<>> ELSE s.days[k]]]

\* schedule[date] = append(schedule[date], m)
AppendMatch(s, label, m) ==
  [s EXCEPT !.days = [k \in DOMAIN s.days \cup {label} |->
                        IF k = label
                        THEN (IF label \in DOMAIN s.days
                              THEN Append(s.days[label], m) ELSE <<m>>)
                        ELSE s.days[k]]]

\* A plausible slip: the limit lets one header too many through.
SkipDayOffByOne(i) == i > daysToShow

\* src/main.go:89-91, i the header's zero-based index
SkipDay(i) == i >= daysToShow

(***************************************************************************)
(* State.                                                                  *)
(***************************************************************************)
VARIABLES
  now,          \* the wall clock, in hours since the zero time
  schedule,     \* the package variable schedule
  lastRefresh,  \* the package variable lastRefresh (0: the zero time)
  mu,           \* the goroutine holding mu, or NoProc
  pc,           \* where each request handler is
  doc,          \* refreshSchedule's doc
  di,           \* position in days.Each (the callback's i is di - 1)
  ri,           \* position in the football rows of the current day
  date,         \* the callback's date, the current day label
  out,          \* what the handler has written to its ResponseWriter
  panicking,    \* the handler's goroutine is unwinding from a panic
  resp,         \* the response completed last
  last,         \* history: the refresh that locked mu last: whose it is, what
                \* it found, how its fetch went
  seen,         \* history: the clock and lastRefresh each handler's check read,
                \* and the fetches its request has performed
  fetched,      \* history: per fetch performed, the lastRefresh its request had read
  nIn,          \* SpecNorm: the string normalized
  nOut          \* SpecNorm: the results of normalizing nIn, then the result

\* the parser's locals
locals == << doc, di, ri, date >>

normVars == << nIn, nOut >>

cacheVars ==
  << now, schedule, lastRefresh, mu, pc, locals, out, panicking, resp, last,
     seen, fetched >>

vars == << cacheVars, normVars >>

\* the goroutines serving the requests, numbered in order of arrival
Procs == 1..MaxRequests

NoProc == 0

MaxTime == Epoch + MaxHours

NoStamp == -1

\* the handler has not compared the elapsed time yet
NotSeen == [at |-> NoStamp, stamp |-> NoStamp, fetches |-> 0]

\* mu has not been locked yet
NoRefresh ==
  [by |-> NoProc, schedule |-> NilSchedule, lastRefresh |-> 0, fetch |-> "none"]

\* nothing written yet: no status line, no error text
NoOutput == [status |-> 0, error |-> FALSE]

\* no response completed yet
NoResponse ==
  [by |-> NoProc, status |-> 0, error |-> FALSE, wrote |-> FALSE,
   sched |-> NilSchedule, stamp |-> NoStamp]

CacheInit ==
  /\ now = Epoch
  /\ schedule = NilSchedule
  /\ lastRefresh = 0
  /\ mu = NoProc
  /\ pc = [p \in Procs |-> "idle"]
  /\ doc = [p \in Procs |-> NilDoc]
  /\ di = [p \in Procs |-> 0]
  /\ ri = [p \in Procs |-> 0]
  /\ date = [p \in Procs |-> <<>>]
  /\ out = [p \in Procs |-> NoOutput]
  /\ panicking = [p \in Procs |-> FALSE]
  /\ resp = NoResponse
  /\ last = NoRefresh
  /\ seen = [p \in Procs |-> NotSeen]
  /\ fetched = <<>>

Init ==
  /\ CacheInit
  /\ nIn = <<>>
  /\ nOut = <<>>

(***************************************************************************)
(* The handlers (src/main.go:158-180) and refreshScheduleIfNeeded.         *)
(***************************************************************************)
\* A plausible slip: the boundary elapsed = cacheDuration counts as expired.
ExpiredAtBoundary(elapsed) == elapsed >= cacheDuration

\* src/main.go:146
Expired(elapsed) == elapsed > cacheDuration

\* time.Since(t)
Since(t) == now - t

\* The server starts a goroutine for the next request and calls its
\* handler, which calls refreshScheduleIfNeeded (src/main.go:145-149):
\* lastRefresh is read without the lock. The read returns the value
\* before or after a concurrent write (the two orders of this step and
\* Deferred); at the clock's granularity a torn value is one of the two.
Request(p) ==
  /\ pc[p] = "idle"
  /\ \A q \in Procs : q < p => pc[q] # "idle"
  /\ seen' = [seen EXCEPT ![p] = [at |-> now, stamp |-> lastRefresh, fetches |-> 0]]
  /\ pc' = [pc EXCEPT ![p] =
              IF Expired(Since(lastRefresh)) THEN "lock" ELSE "respond"]
  /\ UNCHANGED << now, schedule, lastRefresh, mu, locals, out, panicking,
                  resp, last, fetched, normVars >>

\* A plausible slip: mu.RLock() for mu.Lock(), which does not wait for
\* another holder of the read lock.
RLock(p) ==
  /\ pc[p] = "lock"
  /\ mu' = p
  /\ last' = [by |-> p, schedule |-> schedule, lastRefresh |-> lastRefresh,
              fetch |-> "none"]
  /\ pc' = [pc EXCEPT ![p] = "fetch"]
  /\ UNCHANGED << now, schedule, lastRefresh, locals, out, panicking, resp,
                  seen, fetched, normVars >>

\* mu.Lock() (src/main.go:62)
Lock(p) ==
  /\ pc[p] = "lock"
  /\ mu = NoProc
  /\ mu' = p
  /\ last' = [by |-> p, schedule |-> schedule, lastRefresh |-> lastRefresh,
              fetch |-> "none"]
  /\ pc' = [pc EXCEPT ![p] = "fetch"]
  /\ UNCHANGED << now, schedule, lastRefresh, locals, out, panicking, resp,
                  seen, fetched, normVars >>

\* http.Error(w, err.Error(), http.StatusInternalServerError)
HttpError(o) ==
  [status |-> IF o.status = 0 THEN 500 ELSE o.status, error |-> TRUE]

\* A plausible slip: the return after the fetch error is missing, as it is
\* after the parse error, and the function goes on with a nil doc.
FetchFailNoReturn(p) ==
  /\ pc[p] = "fetch"
  /\ fetched' = Append(fetched, seen[p].stamp)
  /\ seen' = [seen EXCEPT ![p].fetches = @ + 1]
  /\ last' = [last EXCEPT !.fetch = "fail"]
  /\ out' = [out EXCEPT ![p] = HttpError(@)]
  /\ pc' = [pc EXCEPT ![p] = "make"]
  /\ UNCHANGED << now, schedule, lastRefresh, mu, locals, panicking, resp,
                  normVars >>

\* client.Get fails (src/main.go:72-76)
FetchFail(p) ==
  /\ pc[p] = "fetch"
  /\ fetched' = Append(fetched, seen[p].stamp)
  /\ seen' = [seen EXCEPT ![p].fetches = @ + 1]
  /\ last' = [last EXCEPT !.fetch = "fail"]
  /\ out' = [out EXCEPT ![p] = HttpError(@)]
  /\ pc' = [pc EXCEPT ![p] = "defer"]
  /\ UNCHANGED << now, schedule, lastRefresh, mu, locals, panicking, resp,
                  normVars >>

\* client.Get succeeds, goquery.NewDocumentFromResponse fails: the error is
\* written and the function goes on with a nil doc (src/main.go:79-82)
FetchUnparseable(p) ==
  /\ pc[p] = "fetch"
  /\ fetched' = Append(fetched, seen[p].stamp)
  /\ seen' = [seen EXCEPT ![p].fetches = @ + 1]
  /\ last' = [last EXCEPT !.fetch = "unparseable"]
  /\ out' = [out EXCEPT ![p] = HttpError(@)]
  /\ doc' = [doc EXCEPT ![p] = NilDoc]
  /\ pc' = [pc EXCEPT ![p] = "make"]
  /\ UNCHANGED << now, schedule, lastRefresh, mu, di, ri, date, panicking,
                  resp, normVars >>

\* client.Get and goquery.NewDocumentFromResponse succeed with document d
FetchOk(p, d) ==
  /\ pc[p] = "fetch"
  /\ fetched' = Append(fetched, seen[p].stamp)
  /\ seen' = [seen EXCEPT ![p].fetches = @ + 1]
  /\ last' = [last EXCEPT !.fetch = "ok"]
  /\ doc' = [doc EXCEPT ![p] = d]
  /\ pc' = [pc EXCEPT ![p] = "make"]
  /\ UNCHANGED << now, schedule, lastRefresh, mu, di, ri, date, out,
                  panicking, resp, normVars >>

\* schedule = make(map[string][]*match, daysToShow), then
\* doc.Find("h2.day-name") (src/main.go:84-88): a nil doc is dereferenced
\* and the goroutine panics; otherwise days.Each starts
Make(p) ==
  /\ pc[p] = "make"
  /\ schedule' = MakeSchedule
  /\ IF doc[p].nil
     THEN /\ panicking' = [panicking EXCEPT ![p] = TRUE]
          /\ pc' = [pc EXCEPT ![p] = "defer"]
          /\ di' = di
     ELSE /\ panicking' = panicking
          /\ pc' = [pc EXCEPT ![p] =
                      IF doc[p].days = <<>> THEN "defer" ELSE "day"]
          /\ di' = [di EXCEPT ![p] = 1]
  /\ UNCHANGED << now, lastRefresh, mu, doc, ri, date, out, resp, last, seen,
                  fetched, normVars >>

\* where days.Each goes after the header at di[p]
AfterDay(p) ==
  IF di[p] = Len(doc[p].days) THEN "defer" ELSE "day"

\* days.Each moves on from the header at di[p]
NextDay(p) ==
  /\ pc' = [pc EXCEPT ![p] = AfterDay(p)]
  /\ di' = [di EXCEPT ![p] = IF AfterDay(p) = "day" THEN @ + 1 ELSE @]

\* A plausible slip: the error of time.Parse is checked and the callback
\* returns on it, so a header without a valid date gets no entry.
ParseDayReturnOnError(p) ==
  LET h == doc[p].days[di[p]]
      id == IF h.hasId THEN h.id ELSE <<>>
  IN
  /\ pc[p] = "day"
  /\ IF SkipDay(di[p] - 1) \/ ~TimeParse(Replace(id, MatchDayPrefix, <<>>)).ok
     THEN /\ NextDay(p)
          /\ UNCHANGED << schedule, date, ri >>
     ELSE /\ schedule' = PutDay(schedule, DayLabel(h))
          /\ date' = [date EXCEPT ![p] = DayLabel(h)]
          /\ IF FootballRows(h) = <<>>
             THEN /\ NextDay(p)
                  /\ ri' = ri
             ELSE /\ pc' = [pc EXCEPT ![p] = "row"]
                  /\ ri' = [ri EXCEPT ![p] = 1]
                  /\ di' = di
  /\ UNCHANGED << now, lastRefresh, mu, doc, out, panicking, resp, last, seen,
                  fetched, normVars >>

\* the callback of days.Each up to the row loop (src/main.go:88-102)
ParseDay(p) ==
  LET h == doc[p].days[di[p]] IN
  /\ pc[p] = "day"
  /\ IF SkipDay(di[p] - 1)
     THEN /\ NextDay(p)
          /\ UNCHANGED << schedule, date, ri >>
     ELSE /\ schedule' = PutDay(schedule, DayLabel(h))
          /\ date' = [date EXCEPT ![p] = DayLabel(h)]
          /\ IF FootballRows(h) = <<>>
             THEN /\ NextDay(p)
                  /\ ri' = ri
             ELSE /\ pc' = [pc EXCEPT ![p] = "row"]
                  /\ ri' = [ri EXCEPT ![p] = 1]
                  /\ di' = di
  /\ UNCHANGED << now, lastRefresh, mu, doc, out, panicking, resp, last, seen,
                  fetched, normVars >>

\* the callback of the row loop (src/main.go:103-140)
ParseRow(p) ==
  LET h    == doc[p].days[di[p]]
      rows == FootballRows(h)
      row  == rows[ri[p]]
  IN
  /\ pc[p] = "row"
  /\ schedule' = IF Interested(LeagueOf(row))
                 THEN AppendMatch(schedule, date[p], MatchOf(row))
                 ELSE schedule
  /\ IF ri[p] < Len(rows)
     THEN /\ ri' = [ri EXCEPT ![p] = @ + 1]
          /\ UNCHANGED << pc, di >>
     ELSE /\ NextDay(p)
          /\ ri' = ri
  /\ UNCHANGED << now, lastRefresh, mu, doc, date, out, panicking, resp, last,
                  seen, fetched, normVars >>

\* the response of p as the client gets it: what http.Error wrote, then
\* the body if there is one. The status line is written once, so a body
\* after http.Error follows the 500 and the error text.
Response(p, wrote, s, stamp) ==
  [ by     |-> p,
    status |-> IF out[p].status = 0 /\ wrote THEN 200 ELSE out[p].status,
    error  |-> out[p].error,
    wrote  |-> wrote,
    sched  |-> s,
    stamp  |-> stamp ]

\* the handler's goroutine ends
Ended(p) ==
  /\ pc' = [pc EXCEPT ![p] = "done"]
  /\ out' = [out EXCEPT ![p] = NoOutput]
  /\ panicking' = [panicking EXCEPT ![p] = FALSE]
  /\ seen' = [seen EXCEPT ![p] = NotSeen]

\* A plausible slip: lastRefresh is set to the time the handler read for
\* its staleness check, not to the time of the write.
DeferredStampAtCheck(p) ==
  /\ pc[p] = "defer"
  /\ lastRefresh' = seen[p].at
  /\ mu' = NoProc
  /\ doc' = [doc EXCEPT ![p] = NilDoc]
  /\ di' = [di EXCEPT ![p] = 0]
  /\ ri' = [ri EXCEPT ![p] = 0]
  /\ date' = [date EXCEPT ![p] = <<>>]
  /\ IF panicking[p]
     THEN /\ resp' = Response(p, FALSE, NilSchedule, NoStamp)
          /\ Ended(p)
     ELSE /\ pc' = [pc EXCEPT ![p] = "respond"]
          /\ UNCHANGED << out, resp, panicking, seen >>
  /\ UNCHANGED << now, schedule, last, fetched, normVars >>

\* the deferred function (src/main.go:63-67), run on return and on panic;
\* a panic then ends the handler with what it has written so far
Deferred(p) ==
  /\ pc[p] = "defer"
  /\ lastRefresh' = now
  /\ mu' = NoProc
  /\ doc' = [doc EXCEPT ![p] = NilDoc]
  /\ di' = [di EXCEPT ![p] = 0]
  /\ ri' = [ri EXCEPT ![p] = 0]
  /\ date' = [date EXCEPT ![p] = <<>>]
  /\ IF panicking[p]
     THEN /\ resp' = Response(p, FALSE, NilSchedule, NoStamp)
          /\ Ended(p)
     ELSE /\ pc' = [pc EXCEPT ![p] = "respond"]
          /\ UNCHANGED << out, resp, panicking, seen >>
  /\ UNCHANGED << now, schedule, last, fetched, normVars >>

\* the rest of the handler of route k (src/main.go:161-168, 174-179):
\* w.Write(js) or t.Execute(w, templateData). schedule and lastRefresh are
\* read without the lock. Both handlers are the same up to here, so the
\* route shows only in this step.
Respond(p, k) ==
  /\ pc[p] = "respond"
  /\ resp' = Response(p, TRUE, schedule,
                      IF k = "html" THEN lastRefresh ELSE NoStamp)
  /\ Ended(p)
  /\ UNCHANGED << now, schedule, lastRefresh, mu, locals, last, fetched,
                  normVars >>

\* The handler's unlocked read of the map (json.Marshal, t.Execute) races
\* with the parser's writes to it (src/main.go:100, 134). Besides reading
\* what is in the map at that moment (Respond), the Go runtime may detect
\* the race and stop the process ("fatal error: concurrent map read and
\* map write"): every goroutine ends, no response is completed.
ConcurrentMapFault(p) ==
  /\ pc[p] = "respond"
  /\ mu # NoProc
  /\ pc[mu] \in {"day", "row"}
  /\ pc' = [q \in Procs |-> "exit"]
  /\ UNCHANGED << now, schedule, lastRefresh, mu, locals, out, panicking,
                  resp, last, seen, fetched, normVars >>

\* The clock is sampled every half cacheDuration: the code only compares
\* the elapsed time with cacheDuration, and 0, 1/2, 1 and 3/2 of it cover
\* less, equal and more.
TickHours == cacheDuration \div 2

\* time passes
Tick ==
  /\ now + TickHours <= MaxTime
  /\ now' = now + TickHours
  /\ UNCHANGED << schedule, lastRefresh, mu, pc, locals, out, panicking, resp,
                  last, seen, fetched, normVars >>

Routes == {"json", "html"}

Next ==
  \/ Tick
  \/ \E p \in Procs :
       \/ Request(p)
       \/ Lock(p)
       \/ FetchFail(p)
       \/ FetchUnparseable(p)
       \/ \E d \in Documents : FetchOk(p, d)
       \/ Make(p)
       \/ ParseDay(p)
       \/ ParseRow(p)
       \/ Deferred(p)
       \/ \E k \in Routes : Respond(p, k)
       \/ ConcurrentMapFault(p)

Spec == Init /\ [][Next]_vars

(***************************************************************************)
(* SpecParse: one request whose fetch returns any of the long documents.   *)
(***************************************************************************)
NextParse ==
  \E p \in {1} :
    \/ Request(p)
    \/ Lock(p)
    \/ \E d \in LongDocuments : FetchOk(p, d)
    \/ Make(p)
    \/ ParseDay(p)
    \/ ParseRow(p)
    \/ Deferred(p)
    \/ \E k \in Routes : Respond(p, k)

SpecParse == Init /\ [][NextParse]_vars

(***************************************************************************)
(* SpecLeague: one request whose fetch returns a one-row document with any *)
(* of the generated league fields.                                         *)
(***************************************************************************)
NextLeague ==
  \E p \in {1} :
    \/ Request(p)
    \/ Lock(p)
    \/ \E d \in LeagueDocuments : FetchOk(p, d)
    \/ Make(p)
    \/ ParseDay(p)
    \/ ParseRow(p)
    \/ Deferred(p)
    \/ \E k \in Routes : Respond(p, k)

SpecLeague == Init /\ [][NextLeague]_vars

(***************************************************************************)
(* SpecNorm: the league normalization applied to any short string, and     *)
(* then to its own result.                                                 *)
(***************************************************************************)
NormAlphabet == {"a", " ", "\n", "\t", "\r"}

NormInputs == UNION {[1..n -> NormAlphabet] : n \in 0..MaxLen}

InitNorm ==
  /\ CacheInit
  /\ nIn \in NormInputs
  /\ nOut = <<>>

NormStep ==
  /\ Len(nOut) < 2
  /\ nOut' = Append(nOut, Normalize(IF nOut = <<>> THEN nIn ELSE nOut[Len(nOut)]))
  /\ UNCHANGED << cacheVars, nIn >>

NextNorm == NormStep

SpecNorm == InitNorm /\ [][NextNorm]_vars

(***************************************************************************)
(* The parse as a function of the document (src/main.go:84-141), for       *)
(* stating what a finished refresh leaves in schedule.                     *)
(***************************************************************************)
RECURSIVE ParseRows(_, _, _)
ParseRows(s, label, rows) ==
  IF rows = <<>> THEN s
  ELSE ParseRows(IF Interested(LeagueOf(Head(rows)))
                 THEN AppendMatch(s, label, MatchOf(Head(rows)))
                 ELSE s,
                 label, Tail(rows))

RECURSIVE ParseDays(_, _, _)
ParseDays(s, days, i) ==
  IF i > Len(days) THEN s
  ELSE ParseDays(IF SkipDay(i - 1) THEN s
                 ELSE ParseRows(PutDay(s, DayLabel(days[i])), DayLabel(days[i]),
                                FootballRows(days[i])),
                 days, i + 1)

ParseDocument(d) == ParseDays(MakeSchedule, d.days, 1)

(***************************************************************************)
(* Properties.                                                             *)
(***************************************************************************)
\* the refresh that locked mu last is over and no other has started
RefreshOver == last.by # NoProc /\ mu = NoProc

\* what the refresh in flight leaves in schedule once its parse is through
RefreshResult == ParseDocument(doc[mu])

\* C1: a handler that reads schedule while a refresh is in flight reads
\* either the schedule the refresh found or the schedule the refresh ends
\* with, never a map under construction.
C1_SnapshotAtomic ==
  [][\A p \in Procs :
       (pc[p] = "respond" /\ pc'[p] = "done" /\ mu # NoProc)
         => resp'.sched \in {last.schedule, RefreshResult}]_vars

\* C2: the requests that found the cache stale on the same lastRefresh
\* perform one fetch between them: no two fetches are for the same
\* observed lastRefresh.
C2_OneFetchPerStaleness ==
  \A i, j \in 1..Len(fetched) : i # j => fetched[i] # fetched[j]

\* C3: after a refresh whose fetch failed, lastRefresh is what it was
\* before that refresh, so the cache is still stale.
C3_FailedFetchKeepsTimestamp ==
  (RefreshOver /\ last.fetch = "fail")
    => (lastRefresh = last.lastRefresh /\ Expired(Since(lastRefresh)))

\* C4: after a refresh whose document could not be parsed, the failure has
\* been reported and schedule and lastRefresh are what they were before
\* that refresh, as after a failed fetch.
C4_ParseFailureLikeFetchFailure ==
  (RefreshOver /\ last.fetch = "unparseable")
    => /\ schedule = last.schedule
       /\ lastRefresh = last.lastRefresh
       /\ (resp.by = last.by => resp.error)

\* C5: from the failure of a refresh's fetch until the next refresh
\* starts, schedule is the schedule that refresh found.
C5_FailedFetchKeepsSnapshot ==
  (last.fetch = "fail") => schedule = last.schedule

\* C5 witness: a fetch has failed on a cache holding matches, the refresh
\* is over, and the matches are still there.
C5_Witness ==
  /\ RefreshOver
  /\ last.fetch = "fail"
  /\ \E k \in DOMAIN last.schedule.days : last.schedule.days[k] # <<>>
  /\ schedule = last.schedule

\* the elapsed time a handler compared with cacheDuration
ElapsedSeen(p) == seen[p].at - seen[p].stamp

\* refreshScheduleIfNeeded has returned in handler p
Checked(p) == pc[p] \in {"defer", "respond"}

\* C6, as stated: a request fetches exactly when the elapsed time it saw
\* was >= cacheDuration.
C6_FetchIffElapsedAtLeastTTL ==
  \A p \in Procs :
    Checked(p) => (seen[p].fetches = 1 <=> ElapsedSeen(p) >= cacheDuration)

\* C6, amended: a request fetches, once, exactly when the elapsed time it
\* saw was > cacheDuration; at elapsed <= cacheDuration it does not fetch.
C6_FetchIffElapsedOverTTL ==
  \A p \in Procs :
    /\ seen[p].fetches <= 1
    /\ Checked(p) => (seen[p].fetches = 1 <=> ElapsedSeen(p) > cacheDuration)

\* C6 witness: a request that saw elapsed = cacheDuration is about to
\* answer without having fetched.
C6_Witness ==
  \E p \in Procs :
    /\ pc[p] = "respond"
    /\ ElapsedSeen(p) = cacheDuration
    /\ seen[p].fetches = 0

\* C7: a request whose refresh failed on a cache that held a snapshot is
\* answered with that snapshot and no error: status 200, no error text.
C7_StaleSnapshotNotError ==
  ( /\ RefreshOver
    /\ last.fetch \in {"fail", "unparseable"}
    /\ ~last.schedule.nil
    /\ resp.by = last.by )
    => /\ resp.status = 200
       /\ ~resp.error
       /\ resp.wrote
       /\ resp.sched = last.schedule

\* the headers of d that the day limit lets through
Shown(d) ==
  1..(IF Len(d.days) < daysToShow THEN Len(d.days) ELSE daysToShow)

\* the matches of schedule s
Matches(s) ==
  UNION {{s.days[k][n] : n \in 1..Len(s.days[k])} : k \in DOMAIN s.days}

\* handler p is parsing its document or has just parsed it
Parsing(p) == mu = p /\ pc[p] \in {"day", "row", "defer"} /\ ~doc[p].nil

\* C8: the schedule a refresh builds has at most daysToShow entries, its keys
\* are labels of the first daysToShow headers and its matches are rows of
\* those headers (a row's name starts with the position of its header).
C8_DayLimit ==
  \A p \in Procs :
    Parsing(p) =>
      /\ Cardinality(DOMAIN schedule.days) <= daysToShow
      /\ DOMAIN schedule.days \subseteq
           {DayLabel(doc[p].days[i]) : i \in Shown(doc[p])}
      /\ \A m \in Matches(schedule) : m.Name[1] \in Shown(doc[p])

\* C8 witness: a document with more than daysToShow headers has been parsed,
\* the schedule has daysToShow entries and the next header's label is not
\* among them.
C8_Witness ==
  \E p \in Procs :
    /\ Parsing(p)
    /\ pc[p] = "defer"
    /\ Len(doc[p].days) > daysToShow
    /\ Cardinality(DOMAIN schedule.days) = daysToShow
    /\ DayLabel(doc[p].days[daysToShow + 1]) \notin DOMAIN schedule.days

\* league contains one of the configured leagues
HasInterest(league) ==
  \E l \in 1..Len(leagues) :
    \E i \in 0..(Len(league) - Len(leagues[l])) :
      SubSeq(league, i + 1, i + Len(leagues[l])) = leagues[l]

\* the league text of a row with its links' texts removed, whitespace runs
\* made one space and the ends trimmed
RowLeague(row) ==
  Trim(multipleSpacesReplaceAll(
         Replace(RemoveLinkTexts(SegmentsText(row.league), row.league),
                 <<"\n">>, <<" ">>),
         <<" ">>),
       {" "})

\* C9: every match in the schedule has a league that contains a configured
\* league, and no football row whose normalized league contains none has
\* a match in the schedule.
C9_LeagueFilter ==
  \A p \in Procs :
    Parsing(p) =>
      /\ \A m \in Matches(schedule) : HasInterest(m.League)
      /\ \A i \in Shown(doc[p]) :
           \A n \in 1..Len(doc[p].days[i].rows) :
             LET row == doc[p].days[i].rows[n] IN
             (IsFootball(row) /\ ~HasInterest(RowLeague(row)))
               => \A m \in Matches(schedule) : m.Name # row.name

\* C9 witness: a parse is through that kept a football row and dropped a
\* football row of the same day.
C9_Witness ==
  \E p \in Procs :
    /\ Parsing(p)
    /\ pc[p] = "defer"
    /\ \E i \in Shown(doc[p]) :
         \E n1, n2 \in 1..Len(doc[p].days[i].rows) :
           LET kept    == doc[p].days[i].rows[n1]
               dropped == doc[p].days[i].rows[n2]
           IN  /\ IsFootball(dropped)
               /\ ~HasInterest(RowLeague(dropped))
               /\ \E m \in Matches(schedule) : m.Name = kept.name

\* C10: normalizing a normalized string changes nothing.
C10_NormalizeIdempotent ==
  Len(nOut) = 2 => nOut[2] = nOut[1]

\* C10 witness: a string with newlines, tabs or spaces to lose has been
\* normalized twice.
C10_Witness ==
  /\ Len(nOut) = 2
  /\ nOut[1] # nIn
  /\ nOut[1] # <<>>
  /\ \E i \in 1..Len(nIn) : nIn[i] = "\n"

\* C11: the "/" handler, which reads schedule and lastRefresh, reads
\* while a refresh whose fetch succeeded is in flight either the pair the
\* refresh found or the pair the refresh would leave at that instant,
\* never the schedule of one with the lastRefresh of the other.
C11_PairAtomic ==
  [][\A p \in Procs :
       ( /\ pc[p] = "respond"
         /\ pc'[p] = "done"
         /\ resp'.stamp # NoStamp
         /\ mu # NoProc
         /\ last.fetch = "ok" )
         => << resp'.sched, resp'.stamp >> \in
              { << last.schedule, last.lastRefresh >>,
                << RefreshResult, now >> }]_vars

\* handler p is inside refreshSchedule, between mu.Lock() and the end of
\* the deferred function
InRefresh(p) == pc[p] \in {"fetch", "make", "day", "row", "defer"}

\* C12: a handler that is anywhere between its fetch and the write of
\* lastRefresh holds mu, so no two handlers are there at once; and a fetch
\* is performed, schedule is changed and lastRefresh is changed only by
\* the handler that holds mu.
C12_RefreshExclusive ==
  /\ [](\A p \in Procs : InRefresh(p) => mu = p)
  /\ [][(fetched' # fetched \/ schedule' # schedule \/ lastRefresh' # lastRefresh)
          => (mu # NoProc /\ InRefresh(mu) /\ mu' \in {mu, NoProc})]_vars

\* C12 witness: one handler is in the middle of its parse, holding mu,
\* while another that found the cache stale waits at mu.Lock().
C12_Witness ==
  \E p, q \in Procs :
    /\ p # q
    /\ mu = p
    /\ pc[p] = "row"
    /\ pc[q] = "lock"

\* sub occurs in s
Occurs(sub, s) ==
  \E i \in 0..(Len(s) - Len(sub)) : SubSeq(s, i + 1, i + Len(sub)) = sub

\* C13: the league stored for a row contains no occurrence of the text of
\* a non-empty link of that row's league field.
C13_NoLinkTextInLeague ==
  \A p \in Procs :
    Parsing(p) =>
      \A i \in Shown(doc[p]) :
        \A n \in 1..Len(doc[p].days[i].rows) :
          LET row == doc[p].days[i].rows[n] IN
          \A m \in Matches(schedule) :
            (IsFootball(row) /\ m.Name = row.name) =>
              \A k \in 1..Len(row.league) :
                (row.league[k].link /\ row.league[k].text # <<>>)
                  => ~Occurs(row.league[k].text, m.League)

\* the label of the zero time: "0001-01-01 - " and the name of its weekday
ZeroLabel ==
  << "0", "0", "0", "1", "-", "0", "1", "-", "0", "1", " ", "-", " ",
     dayNames.Monday >>

\* the header's span has no id, or an id that is not "match-day-" and a date
Malformed(h) ==
  \/ ~h.hasId
  \/ ~TimeParse(Replace(h.id, MatchDayPrefix, <<>>)).ok

\* the row passes the league filter
Passes(row) == HasInterest(RowLeague(row))

\* the matches of the header's football rows that pass the league filter,
\* in the order of the rows
ExpectedMatches(h) ==
  LET kept == SelectSeq(FootballRows(h), Passes)
  IN  [n \in 1..Len(kept) |-> MatchOf(kept[n])]

\* handler p has been through all the headers of its document
Parsed(p) == Parsing(p) /\ pc[p] = "defer"

\* the headers among the first daysToShow that compute the same label as
\* header i
SameLabel(d, i) ==
  {j \in Shown(d) : DayLabel(d.days[j]) = DayLabel(d.days[i])}

\* C14: when a parse is through, every malformed header among the first
\* daysToShow has left an entry under the zero label, and every other
\* header, unless another header has computed its label too, has its entry
\* under its own date with its matches.
C14_MalformedDateNotFatal ==
  \A p \in Procs :
    Parsed(p) =>
      \A i \in Shown(doc[p]) :
        LET h == doc[p].days[i] IN
        IF Malformed(h)
        THEN ZeroLabel \in DOMAIN schedule.days
        ELSE /\ DayLabel(h) # ZeroLabel
             /\ DayLabel(h) \in DOMAIN schedule.days
             /\ SameLabel(doc[p], i) = {i}
                  => schedule.days[DayLabel(h)] = ExpectedMatches(h)

\* C14 witness: a parse is through of a document with a header without id,
\* a header with an id that is no date, and after them a header with a
\* date of its own and matches.
C14_Witness ==
  \E p \in Procs :
    /\ Parsed(p)
    /\ \E i, j, k \in Shown(doc[p]) :
         /\ i < k
         /\ j < k
         /\ ~doc[p].days[i].hasId
         /\ doc[p].days[j].hasId
         /\ Malformed(doc[p].days[j])
         /\ ~Malformed(doc[p].days[k])
         /\ SameLabel(doc[p], k) = {k}
         /\ schedule.days[DayLabel(doc[p].days[k])] # <<>>

\* C15: when a parse is through and two headers among the first
\* daysToShow have computed the same label, the entry of that label is the
\* matches of the last header that computed it, and no match of an earlier
\* one is in it (a match's name starts with the position of its header).
C15_LaterHeaderOverwrites ==
  \A p \in Procs :
    Parsed(p) =>
      \A i, j \in Shown(doc[p]) :
        ( /\ i < j
          /\ j \in SameLabel(doc[p], i)
          /\ \A k \in SameLabel(doc[p], i) : k <= j )
          => LET entry == schedule.days[DayLabel(doc[p].days[j])] IN
             /\ entry = ExpectedMatches(doc[p].days[j])
             /\ \A n \in 1..Len(entry) : entry[n].Name[1] # i

\* C15 witness: a parse is through in which two headers with matches
\* computed the same label, and the entry has matches.
C15_Witness ==
  \E p \in Procs :
    /\ Parsed(p)
    /\ \E i, j \in Shown(doc[p]) :
         /\ i < j
         /\ j \in SameLabel(doc[p], i)
         /\ \A k \in SameLabel(doc[p], i) : k <= j
         /\ ExpectedMatches(doc[p].days[i]) # <<>>
         /\ schedule.days[DayLabel(doc[p].days[j])] # <<>>

\* C16: when a parse is through, the label of every header among the first
\* daysToShow is a key of schedule, and it is bound to the empty sequence
\* when no header that computed it has a row that passes the league filter.
C16_EveryDayHasEntry ==
  \A p \in Procs :
    Parsed(p) =>
      \A i \in Shown(doc[p]) :
        LET label == DayLabel(doc[p].days[i]) IN
        /\ label \in DOMAIN schedule.days
        /\ (\A j \in SameLabel(doc[p], i) : ExpectedMatches(doc[p].days[j]) = <<>>)
             => schedule.days[label] = <<>>

\* C16 witness: a parse is through of a document with a header that has
\* football rows, none of which passes the league filter, and its label
\* is bound to the empty sequence.
C16_Witness ==
  \E p \in Procs :
    /\ Parsed(p)
    /\ \E i \in Shown(doc[p]) :
         LET h == doc[p].days[i] IN
         /\ FootballRows(h) # <<>>
         /\ \A n \in 1..Len(FootballRows(h)) : ~Passes(FootballRows(h)[n])
         /\ SameLabel(doc[p], i) = {i}
         /\ DayLabel(h) \in DOMAIN schedule.days
         /\ schedule.days[DayLabel(h)] = <<>>

\* the positions in the header's table of its football rows that pass the
\* league filter (a row's name ends with its position in the table)
PassingRows(h) ==
  {n \in 1..Len(h.rows) : IsFootball(h.rows[n]) /\ Passes(h.rows[n])}

\* C17: when a parse is through, the entry of the last header that computed
\* a label holds one match for each of the header's football rows that
\* pass the league filter and no other, in the order of the rows in the
\* table.
C17_RowOrderKept ==
  \A p \in Procs :
    Parsed(p) =>
      \A j \in Shown(doc[p]) :
        (\A k \in SameLabel(doc[p], j) : k <= j) =>
          LET h     == doc[p].days[j]
              entry == schedule.days[DayLabel(h)]
          IN  /\ Len(entry) = Cardinality(PassingRows(h))
              /\ \A n \in 1..Len(entry) :
                   /\ entry[n].Name[1] = j
                   /\ entry[n].Name[2] \in PassingRows(h)
              /\ \A a, b \in 1..Len(entry) :
                   a < b => entry[a].Name[2] < entry[b].Name[2]

\* C17 witness: a parse is through of a document with a day whose table has
\* a football row that is filtered out between two that are kept, and the
\* day's entry has the two matches.
C17_Witness ==
  \E p \in Procs :
    /\ Parsed(p)
    /\ \E j \in Shown(doc[p]) :
         LET h == doc[p].days[j] IN
         /\ \A k \in SameLabel(doc[p], j) : k <= j
         /\ \E a, b, c \in 1..Len(h.rows) :
              /\ a < b
              /\ b < c
              /\ a \in PassingRows(h)
              /\ IsFootball(h.rows[b])
              /\ b \notin PassingRows(h)
              /\ c \in PassingRows(h)
         /\ Len(schedule.days[DayLabel(h)]) >= 2

\* C19: in every step lastRefresh stays or grows, and it changes only in
\* the deferred function of the handler that holds mu, to the time of the
\* clock at that step.
C19_TimestampMonotonic ==
  [][ /\ lastRefresh' >= lastRefresh
      /\ lastRefresh' # lastRefresh
           => (mu # NoProc /\ pc[mu] = "defer" /\ lastRefresh' = now') ]_vars

\* C19 witness: two refreshes are over, the second after the clock had
\* advanced, and lastRefresh is later than the first had left it.
C19_Witness ==
  /\ RefreshOver
  /\ last.lastRefresh >= Epoch
  /\ lastRefresh > last.lastRefresh

(***************************************************************************)
(* SpecLive: the requests of Spec with the scheduling the Go runtime gives *)
(* the handlers: a goroutine that can take a step eventually takes it, a   *)
(* fetch returns, and a goroutine blocked in mu.Lock() gets the mutex once *)
(* it stays free. No request has to arrive and the clock does not have to  *)
(* advance. Whether a handler ends does not depend on the texts of the     *)
(* document, so the documents here have headers without id and short       *)
(* league texts: one day and one football row more per header.             *)
(***************************************************************************)
LiveRow(i, j) ==
  [ sport   |-> IF j = 2 THEN "ishockey" ELSE "fotboll",
    name    |-> <<i, j>>,
    league  |-> << Seg(FALSE, <<"P", "L">>) >>,
    channel |-> [has |-> FALSE, title |-> ""],
    time    |-> "21:00" ]

LiveDocuments ==
  { [nil  |-> FALSE,
     days |-> [i \in 1..MaxDays |->
                 [hasId |-> FALSE, id |-> <<>>,
                  rows  |-> [j \in 1..i |-> LiveRow(i, j)]]]] }

\* a step of the handler of request p once the request has arrived
StepLive(p) ==
  \/ Lock(p)
  \/ FetchFail(p)
  \/ FetchUnparseable(p)
  \/ \E d \in LiveDocuments : FetchOk(p, d)
  \/ Make(p)
  \/ ParseDay(p)
  \/ ParseRow(p)
  \/ Deferred(p)
  \/ \E k \in Routes : Respond(p, k)

NextLive ==
  \/ Tick
  \/ \E p \in Procs :
       \/ Request(p)
       \/ StepLive(p)
       \/ ConcurrentMapFault(p)

Fairness == \A p \in Procs : WF_vars(StepLive(p))

SpecLive == Init /\ [][NextLive]_vars /\ Fairness

\* C18: a handler that has left refreshSchedule does not hold mu; a
\* handler waiting in mu.Lock() eventually holds mu; and the handler of
\* every request that has arrived eventually ends.
C18_EveryRequestCompletes ==
  /\ [](\A p \in Procs : pc[p] \in {"respond", "done"} => mu # p)
  /\ \A p \in Procs :
       /\ (pc[p] = "lock") ~> (mu = p)
       /\ (pc[p] # "idle") ~> (pc[p] = "done")

====
